---------------------------- MODULE Spec2Model ----------------------------
(***************************************************************************)
(* A model of the two Monte Carlo simulators of the Coupon-Collector       *)
(* repository:                                                             *)
(*   src/problem1.py  coupon_collector_trial, simulate_coupon_collector    *)
(*   src/problem2.py  simulate_trial, simulate_trials                      *)
(*                                                                         *)
(* The random source is the environment: every call of random.randrange    *)
(* or random.random is a nondeterministic choice of the value drawn.       *)
(* Probabilities are integer weights over a common denominator (the sum of *)
(* the weights), and a draw u of random.random() is the integer numerator  *)
(* of u over that denominator, so that the comparisons u < cdf[i] of the   *)
(* code are exact, boundary values included.  A quotient a / b of the code *)
(* is the pair <<a, b>>; a division by zero is modelled by what Python or  *)
(* numpy does with it.                                                     *)
(***************************************************************************)
EXTENDS Integers, Sequences, FiniteSets

(* ------------------------------ bounds -------------------------------- *)

\* Largest number of coupon types n of a run.
MaxN == 3

\* Largest trial count of an aggregation run.
MaxTrials == 2

\* A coupon that is already collected is drawn again only while fewer than
\* MaxSteps draws were made: the bound on the length of the random stream.
MaxSteps == 4

\* Largest length of an offspring distribution given to simulate_trial.
MaxK == 4

\* The common denominator of the probabilities given to simulate_trial.
Denom == 2

\* Largest number of generations of a direct call of simulate_trial.
MaxGens == 3

\* Largest number of generations of an aggregation run of simulate_trials.
MaxAggGens == 2

VARIABLES
    entry,        \* the function the caller invoked
    pc,           \* the position of the program
    n,            \* problem1: number of coupon types
    trials,       \* number of trials asked of the aggregator
    collected,    \* problem1.py:30  the set of coupons seen in this trial
    steps,        \* problem1.py:31  the draw counter of this trial
    s,            \* problem1.py:50  the value the last trial returned
    steps_list,   \* problem1.py:48  the per-trial results
    t,            \* problem1.py:49 / problem2.py:24  iterations started
    avg_steps,    \* problem1.py:54  the average returned
    outcome,      \* how the entry call ended: "running", "returned", or the exception
    drawn,        \* history: the coupons drawn in this trial, in order
    invoked,      \* history: number of single-trial calls made
    results,      \* history: the value of every single-trial call, in call order
    probs,        \* problem2: the offspring distribution, as integer weights
    num_gens,     \* problem2: the number of generations asked for
    sizes,        \* problem2.py:9   the generation sizes of this trial
    g,            \* problem2.py:10  iterations of the generation loop started
    children,     \* problem2.py:11  the running sum of the offspring counts
    left,         \* problem2.py:13  individuals of range(sizes[-1]) still to sample
    totals,       \* problem2.py:23  the elementwise totals
    means,        \* problem2.py:26  the vector returned
    lastU,        \* history: the last value random.random() returned (-1: none)
    lastKid,      \* history: the offspring count sampled from lastU
    drawsPerGen   \* history: draws consumed by each iteration of the generation loop

\* The state of problem1.py alone.
cvars == <<n, collected, steps, s, steps_list, avg_steps, drawn>>

\* The state of problem2.py alone.
bvars == <<probs, num_gens, sizes, g, children, left, totals, means, lastU,
           lastKid, drawsPerGen>>

vars == <<entry, pc, trials, t, outcome, invoked, results, cvars, bvars>>

(* ------------------------------ helpers ------------------------------- *)

RECURSIVE SumSeq(_)
\* Python's sum() over a list of integers.
SumSeq(q) == IF q = <<>> THEN 0 ELSE q[1] + SumSeq(Tail(q))

\* range(1, trials + 1) still has an element after `done` iterations.
RangeHasNext(done, cnt) == done < cnt

\* a / b of Python on two ints raises ZeroDivisionError exactly when b = 0.
DivRaises(a, b) == b = 0

\* a / b of Python on two ints, b # 0: the exact quotient a over b.
PyDiv(a, b) == <<a, b>>

(* --------------------- problem1.py: one trial ------------------------- *)

\* A loop condition that is off by one: it never becomes false for n >= 0.
LoopCondOffByOne(coll, k) == Cardinality(coll) <= k

\* problem1.py:32  the loop condition
LoopCond(coll, k) == Cardinality(coll) < k

\* A counter that skips the draws of coupons already collected.
StepCountNewOnly(cnt, coupon, coll) ==
    IF coupon \in coll THEN cnt ELSE cnt + 1

\* problem1.py:35  the counter after one draw
StepCount(cnt, coupon, coll) == cnt + 1

\* problem1.py:30-31  entering coupon_collector_trial
EnterTrial ==
    /\ collected' = {}
    /\ steps' = 0
    /\ drawn' = <<>>
    /\ invoked' = invoked + 1
    /\ pc' = "trial_loop"

\* problem1.py:32-35  one iteration of the draw loop, drawing `coupon`
TrialDraw(coupon) ==
    /\ pc = "trial_loop"
    /\ LoopCond(collected, n)
    /\ coupon \in 0..(n - 1)
    /\ coupon \in collected => steps < MaxSteps
    /\ collected' = collected \cup {coupon}
    /\ steps' = StepCount(steps, coupon, collected)
    /\ drawn' = Append(drawn, coupon)
    /\ UNCHANGED <<entry, pc, n, trials, s, steps_list, t, avg_steps, outcome,
                   invoked, results, bvars>>

\* problem1.py:32,36  the loop condition is false: return steps
TrialReturn ==
    /\ pc = "trial_loop"
    /\ ~LoopCond(collected, n)
    /\ s' = steps
    /\ results' = Append(results, steps)
    /\ IF entry = "coupon_collector_trial"
         THEN pc' = "done" /\ outcome' = "returned"
         ELSE pc' = "agg_append" /\ UNCHANGED outcome
    /\ UNCHANGED <<entry, n, trials, collected, steps, steps_list, t, avg_steps,
                   drawn, invoked, bvars>>

(* ------------------ problem1.py: the aggregator ----------------------- *)

\* An append at the wrong end of the list.
ListPrepend(list, x) == <<x>> \o list

\* problem1.py:51  steps_list.append(s)
ListAppend(list, x) == Append(list, x)

\* problem1.py:49-50  the next iteration calls the trial
AggNext ==
    /\ pc = "agg_loop"
    /\ RangeHasNext(t, trials)
    /\ t' = t + 1
    /\ EnterTrial
    /\ UNCHANGED <<entry, n, trials, s, steps_list, avg_steps, outcome, results,
                   bvars>>

\* problem1.py:51  the trial's result is appended
AggAppend ==
    /\ pc = "agg_append"
    /\ steps_list' = ListAppend(steps_list, s)
    /\ pc' = "agg_loop"
    /\ UNCHANGED <<entry, n, trials, collected, steps, s, t, avg_steps, outcome,
                   drawn, invoked, results, bvars>>

\* problem1.py:54-55  the loop is over: average and return
AggAverage ==
    /\ pc = "agg_loop"
    /\ ~RangeHasNext(t, trials)
    /\ IF DivRaises(SumSeq(steps_list), trials)
         THEN outcome' = "ZeroDivisionError" /\ UNCHANGED avg_steps
         ELSE outcome' = "returned"
              /\ avg_steps' = PyDiv(SumSeq(steps_list), trials)
    /\ pc' = "done"
    /\ UNCHANGED <<entry, n, trials, collected, steps, s, steps_list, t, drawn,
                   invoked, results, bvars>>

(* ----------------- specification of problem1.py ----------------------- *)

\* problem2.py is not running.
BranchIdle ==
    /\ probs = <<1>>
    /\ num_gens = 0
    /\ sizes = <<>>
    /\ g = 0
    /\ children = 0
    /\ left = 0
    /\ totals = <<>>
    /\ means = <<>>
    /\ lastU = -1
    /\ lastKid = -1
    /\ drawsPerGen = <<>>

CouponInit ==
    /\ BranchIdle
    /\ entry \in {"coupon_collector_trial", "simulate_coupon_collector"}
    /\ n \in -1..MaxN
    /\ IF entry = "coupon_collector_trial"
         THEN trials = 0 /\ pc = "trial_loop" /\ invoked = 1
         ELSE trials \in -1..MaxTrials /\ pc = "agg_loop" /\ invoked = 0
    /\ collected = {}
    /\ steps = 0
    /\ s = 0
    /\ steps_list = <<>>
    /\ t = 0
    /\ avg_steps = <<0, 1>>
    /\ outcome = "running"
    /\ drawn = <<>>
    /\ results = <<>>

CouponNext ==
    \/ \E coupon \in 0..(MaxN - 1) : TrialDraw(coupon)
    \/ TrialReturn
    \/ AggNext
    \/ AggAppend
    \/ AggAverage

CouponSpec == CouponInit /\ [][CouponNext]_vars

\* The random source is fair to every coupon value: a value that the loop can
\* draw is eventually drawn, and a loop whose condition is false returns.
CouponLiveSpec ==
    /\ CouponSpec
    /\ \A coupon \in 0..(MaxN - 1) : WF_vars(TrialDraw(coupon))
    /\ WF_vars(TrialReturn)

(* ------------------- claims about problem1.py ------------------------- *)

\* The call of coupon_collector_trial that is running or just returned has
\* returned its value.
TrialReturned == pc \in {"done", "agg_append"} /\ results # <<>>

\* The first k draws of this trial contain every value of 0..n-1.
Covers(k) == {drawn[i] : i \in 1..k} = 0..(n - 1)

\* C1: for n >= 1, coupon_collector_trial returns the smallest k such that the
\* first k draws contain every value of 0..n-1; every draw, repeated coupons
\* included, counts once, and the loop stops at the first complete set.
C1_SmallestCover ==
    (TrialReturned /\ n >= 1) =>
        /\ s = Len(drawn)
        /\ Covers(s)
        /\ \A k \in 0..(s - 1) : ~Covers(k)

\* C1 witness: the scenario n = 3 with draws 0,1,0,2 returned 4.
C1_Witness ==
    TrialReturned /\ n = 3 /\ drawn = <<0, 1, 0, 2>> /\ s = 4

\* C2: for n >= 1, under a random source that eventually draws every coupon
\* value, a running draw loop eventually holds n coupons and returns.
C2_Terminates ==
    (pc = "trial_loop" /\ n >= 1) ~>
        (TrialReturned /\ Cardinality(collected) = n)

\* C2 witness: a trial with n = MaxN that drew a repeated coupon has returned.
C2_Witness ==
    TrialReturned /\ n = MaxN /\ Len(drawn) > n /\ Cardinality(collected) = n

\* C5: for n >= 1 and trials >= 1, simulate_coupon_collector calls the trial
\* exactly `trials` times and returns the per-trial results in call order with
\* their sum over `trials` as the average.
C5_Aggregate ==
    (entry = "simulate_coupon_collector" /\ pc = "done" /\ n >= 1 /\ trials >= 1) =>
        /\ outcome = "returned"
        /\ invoked = trials
        /\ Len(steps_list) = trials
        /\ \A i \in 1..trials : steps_list[i] = results[i]
        /\ avg_steps = <<SumSeq(results), trials>>

\* C5 witness: two trials with different results were aggregated.
C5_Witness ==
    /\ entry = "simulate_coupon_collector" /\ pc = "done" /\ outcome = "returned"
    /\ n >= 2 /\ trials = 2 /\ Len(results) = 2 /\ results[1] # results[2]

\* C7: coupon_collector_trial with n < 1 fails with InvalidParameter: it
\* returns no step count.
C7_InvalidN ==
    (entry = "coupon_collector_trial" /\ n < 1 /\ pc = "done") =>
        outcome = "InvalidParameter"

(* --------------------- problem2.py: one trial ------------------------- *)

RECURSIVE SumTo(_, _)
\* The sum of the first k entries of q.
SumTo(q, k) == IF k = 0 THEN 0 ELSE q[k] + SumTo(q, k - 1)

\* The distribution itself, not accumulated.
CumSumSkipped(p) == [i \in 1..Len(p) |-> p[i]]

\* problem2.py:8  np.cumsum(probs)
CumSum(p) == [i \in 1..Len(p) |-> SumTo(p, i)]

\* The denominator of the weights: random.random() < 1 is u < Total(p).
Total(p) == SumTo(p, Len(p))

\* A sampling whose comparisons admit the boundary value.
SampleOffspringInclusive(cdf, u) ==
    IF u <= cdf[1] THEN 0 ELSE IF u <= cdf[2] THEN 1 ELSE 2

\* problem2.py:12  the offspring count sampled from the draw u (cdf[0] and
\* cdf[1] of the code are cdf[1] and cdf[2] here; cdf[1] of the code is read
\* only when u >= cdf[0])
SampleOffspring(cdf, u) ==
    IF u < cdf[1] THEN 0 ELSE IF u < cdf[2] THEN 1 ELSE 2

\* problem2.py:13  range(sizes[-1]): the individuals of the last generation
ParentCount(sz) == sz[Len(sz)]

\* problem2.py:16  the extinction test
Extinct(kids) == kids = 0

\* A fill that is one entry short.
ZeroFillShort(sz, gens) ==
    sz \o [i \in 1..(gens - Len(sz)) |-> 0]

\* A fill that repeats the root generation's size.
ZeroFillRoot(sz, gens) ==
    sz \o [i \in 1..(gens - Len(sz) + 1) |-> sz[1]]

\* problem2.py:17  sizes.extend([0] * (num_gens - len(sizes) + 1))
ZeroFill(sz, gens) ==
    sz \o [i \in 1..(gens - Len(sz) + 1) |-> 0]

\* problem2.py:8-9  entering simulate_trial
EnterBranchTrial ==
    /\ sizes' = <<1>>
    /\ g' = 0
    /\ children' = 0
    /\ left' = 0
    /\ drawsPerGen' = <<>>
    /\ invoked' = invoked + 1
    /\ pc' = "gen_loop"

\* problem2.py:10-11  the next iteration of the generation loop starts its sum
GenNext ==
    /\ pc = "gen_loop"
    /\ RangeHasNext(g, num_gens)
    /\ g' = g + 1
    /\ children' = 0
    /\ left' = ParentCount(sizes)
    /\ drawsPerGen' = Append(drawsPerGen, 0)
    /\ pc' = "gen_sum"
    /\ UNCHANGED <<entry, trials, t, outcome, invoked, results, cvars, probs,
                   num_gens, sizes, totals, means, lastU, lastKid>>

\* problem2.py:11-14  one individual draws u and adds its offspring count
GenSample(u) ==
    /\ pc = "gen_sum"
    /\ left > 0
    /\ u \in 0..(Total(probs) - 1)
    /\ children' = children + SampleOffspring(CumSum(probs), u)
    /\ left' = left - 1
    /\ lastU' = u
    /\ lastKid' = SampleOffspring(CumSum(probs), u)
    /\ drawsPerGen' = [drawsPerGen EXCEPT ![g] = @ + 1]
    /\ UNCHANGED <<entry, pc, trials, t, outcome, invoked, results, cvars, probs,
                   num_gens, sizes, g, totals, means>>

\* problem2.py:15-18  the sum is complete: append it, and on extinction fill
\* the rest with zeros and leave the loop
GenAppend ==
    /\ pc = "gen_sum"
    /\ left = 0
    /\ IF Extinct(children)
         THEN /\ sizes' = ZeroFill(Append(sizes, children), num_gens)
              /\ pc' = "gen_break"
         ELSE /\ sizes' = Append(sizes, children)
              /\ pc' = "gen_loop"
    /\ UNCHANGED <<entry, trials, t, outcome, invoked, results, cvars, probs,
                   num_gens, g, children, left, totals, means, lastU, lastKid,
                   drawsPerGen>>

\* problem2.py:19  the loop is over or was left: return sizes
BranchReturn ==
    /\ \/ pc = "gen_loop" /\ ~RangeHasNext(g, num_gens)
       \/ pc = "gen_break"
    /\ results' = Append(results, sizes)
    /\ IF entry = "simulate_trial"
         THEN pc' = "done" /\ outcome' = "returned"
         ELSE pc' = "agg_add" /\ UNCHANGED outcome
    /\ UNCHANGED <<entry, trials, t, invoked, cvars, bvars>>

(* ------------------ problem2.py: the aggregator ----------------------- *)

\* A slice that stops one entry early.
SliceToShort(sz, k) ==
    IF k <= 1 THEN <<>> ELSE IF k - 1 >= Len(sz) THEN sz ELSE SubSeq(sz, 1, k - 1)

\* problem2.py:25  the slice [: num_gens + 1] of a list
SliceTo(sz, k) ==
    IF k <= 0 THEN <<>> ELSE IF k >= Len(sz) THEN sz ELSE SubSeq(sz, 1, k)

\* problem2.py:25  numpy cannot broadcast a list of another length, except a
\* list of length 1
AddRaises(tot, sz) == Len(sz) # Len(tot) /\ Len(sz) # 1

\* problem2.py:25  totals += list, for shapes numpy accepts
VecAdd(tot, sz) ==
    [i \in 1..Len(tot) |-> tot[i] + (IF Len(sz) = Len(tot) THEN sz[i] ELSE sz[1])]

\* problem2.py:26  totals / trials of numpy: the quotient of every entry over
\* cnt; a zero cnt raises nothing and gives nan or inf, written <<x, 0>>
NpDiv(tot, cnt) == [i \in 1..Len(tot) |-> <<tot[i], cnt>>]

\* problem2.py:24-25  the next iteration calls the trial
BranchAggNext ==
    /\ pc = "agg_loop"
    /\ RangeHasNext(t, trials)
    /\ t' = t + 1
    /\ EnterBranchTrial
    /\ UNCHANGED <<entry, trials, outcome, results, cvars, probs, num_gens,
                   totals, means, lastU, lastKid>>

\* problem2.py:25  the trial's sequence is added to the totals
BranchAggAdd ==
    /\ pc = "agg_add"
    /\ IF AddRaises(totals, SliceTo(sizes, num_gens + 1))
         THEN outcome' = "ValueError" /\ pc' = "done" /\ UNCHANGED totals
         ELSE /\ totals' = VecAdd(totals, SliceTo(sizes, num_gens + 1))
              /\ pc' = "agg_loop"
              /\ UNCHANGED outcome
    /\ UNCHANGED <<entry, trials, t, invoked, results, cvars, probs, num_gens,
                   sizes, g, children, left, means, lastU, lastKid, drawsPerGen>>

\* problem2.py:26  the loop is over: divide and return
BranchAggMeans ==
    /\ pc = "agg_loop"
    /\ ~RangeHasNext(t, trials)
    /\ means' = NpDiv(totals, trials)
    /\ outcome' = "returned"
    /\ pc' = "done"
    /\ UNCHANGED <<entry, trials, t, invoked, results, cvars, probs, num_gens,
                   sizes, g, children, left, totals, lastU, lastKid, drawsPerGen>>

(* ----------------- specification of problem2.py ----------------------- *)

\* problem1.py is not running.
CouponIdle ==
    /\ n = 0
    /\ collected = {}
    /\ steps = 0
    /\ s = 0
    /\ steps_list = <<>>
    /\ avg_steps = <<0, 1>>
    /\ drawn = <<>>

\* Every distribution of length 1..MaxK whose weights sum to Denom.
Dists ==
    UNION { {p \in [1..k -> 0..Denom] : SumTo(p, k) = Denom} : k \in 1..MaxK }

\* problem2.py:115-119  the distributions main() passes on:
\* [0.50, 0.25, 0.25], [0.25, 0.25, 0.50] and [1/3, 1/3, 1/3]
DISTRIBUTIONS == {<<2, 1, 1>>, <<1, 1, 2>>, <<1, 1, 1>>}

BranchInit ==
    /\ CouponIdle
    /\ entry \in {"simulate_trial", "simulate_trials"}
    /\ IF entry = "simulate_trial"
         THEN /\ probs \in Dists
              /\ num_gens \in 0..MaxGens
              /\ trials = 0
              /\ pc = "gen_loop"
              /\ invoked = 1
              /\ sizes = <<1>>
              /\ totals = <<>>
         ELSE /\ probs \in DISTRIBUTIONS
              /\ num_gens \in 0..MaxAggGens
              /\ trials \in -1..MaxTrials
              /\ pc = "agg_loop"
              /\ invoked = 0
              /\ sizes = <<>>
              /\ totals = [i \in 1..(num_gens + 1) |-> 0]
    /\ g = 0
    /\ children = 0
    /\ left = 0
    /\ means = <<>>
    /\ lastU = -1
    /\ lastKid = -1
    /\ drawsPerGen = <<>>
    /\ t = 0
    /\ outcome = "running"
    /\ results = <<>>

BranchNext ==
    \/ GenNext
    \/ \E u \in 0..(Total(probs) - 1) : GenSample(u)
    \/ GenAppend
    \/ BranchReturn
    \/ BranchAggNext
    \/ BranchAggAdd
    \/ BranchAggMeans

BranchSpec == BranchInit /\ [][BranchNext]_vars

(* ------------------- claims about problem2.py ------------------------- *)

\* A call of simulate_trial has returned, and none is running.
BranchTrialReturned ==
    /\ entry \in {"simulate_trial", "simulate_trials"}
    /\ pc \in {"done", "agg_add"}
    /\ results # <<>>

\* The sequence the last call of simulate_trial returned.
LastResult == results[Len(results)]

\* C3: simulate_trial returns exactly num_gens + 1 entries, whether extinction
\* happens at no generation, at the last one or at an earlier one.
C3_Length ==
    entry \in {"simulate_trial", "simulate_trials"} =>
        \A i \in 1..Len(results) : Len(results[i]) = num_gens + 1

\* C3 witness: a trial of three generations went extinct at the first one and
\* was filled with two zeros.
C3_Witness ==
    BranchTrialReturned /\ num_gens = 3 /\ LastResult = <<1, 0, 0, 0>>

\* The draws consumed by iteration j of the generation loop, which computes
\* entry j of the sequence.
DrawsFor(j) == IF j <= Len(drawsPerGen) THEN drawsPerGen[j] ELSE 0

\* C4: in the sequence simulate_trial returns, every entry after a zero entry
\* is zero, and no draw is consumed for a generation after the first zero.
C4_Absorbing ==
    BranchTrialReturned =>
        \A i \in 0..num_gens :
            (i + 1 <= Len(LastResult) /\ LastResult[i + 1] = 0) =>
                \A j \in (i + 1)..num_gens :
                    /\ j + 1 <= Len(LastResult)
                    /\ LastResult[j + 1] = 0
                    /\ DrawsFor(j) = 0

\* C4 witness: a trial of three generations went extinct at the second one,
\* after one draw for each of the first two generations.
C4_Witness ==
    /\ BranchTrialReturned /\ num_gens = 3
    /\ LastResult = <<1, 1, 0, 0>> /\ drawsPerGen = <<1, 1>>

RECURSIVE SumAt(_, _, _)
\* The sum of entry i of the first k sequences of q.
SumAt(q, i, k) == IF k = 0 THEN 0 ELSE q[k][i] + SumAt(q, i, k - 1)

\* C6: for trials >= 1, simulate_trials calls simulate_trial exactly `trials`
\* times and returns num_gens + 1 entries, entry i being the sum of entry i of
\* every trial over `trials`.
C6_Means ==
    (entry = "simulate_trials" /\ pc = "done" /\ trials >= 1) =>
        /\ outcome = "returned"
        /\ invoked = trials
        /\ Len(results) = trials
        /\ Len(means) = num_gens + 1
        /\ \A i \in 1..(num_gens + 1) :
               means[i] = <<SumAt(results, i, trials), trials>>

\* C6 witness: two trials of two generations with different sequences were
\* averaged.
C6_Witness ==
    /\ entry = "simulate_trials" /\ pc = "done" /\ outcome = "returned"
    /\ trials = 2 /\ num_gens = 2 /\ Len(results) = 2
    /\ results[1] # results[2]

\* C8: both aggregators reject a trial count below 1 with an error: no trial
\* is called and no average is returned.
C8_RejectsTrials ==
    (entry \in {"simulate_coupon_collector", "simulate_trials"} /\ trials < 1) =>
        /\ invoked = 0
        /\ pc = "done" => outcome \notin {"returned"}

\* The indices i of the distribution with u < CDF(i).
Below(u) == {i \in 0..(Len(probs) - 1) : u < SumTo(probs, i + 1)}

\* The smallest index i with u < CDF(i).
InverseCdf(u) == CHOOSE i \in Below(u) : \A j \in Below(u) : i <= j

\* C9 as stated: for a distribution of any length, the offspring count sampled
\* from a draw u is the smallest index i with u < CDF(i).
C9_AnyLength ==
    lastU >= 0 => lastKid = InverseCdf(lastU)

\* C9 as amended: for a distribution of length at most 3, the offspring count
\* sampled from a draw u is the smallest index i with u < CDF(i).
C9_UpToThree ==
    (lastU >= 0 /\ Len(probs) <= 3) => lastKid = InverseCdf(lastU)

\* C9 witness: a draw under a distribution of length 3 sampled two offspring.
C9_Witness ==
    lastU >= 0 /\ Len(probs) = 3 /\ lastKid = 2 /\ lastU < Total(probs) - 1

\* C10 as stated: a draw u equal to the boundary CDF(i) samples i offspring.
C10_TieLower ==
    \A i \in 0..(Len(probs) - 1) :
        (lastU >= 0 /\ lastU = SumTo(probs, i + 1)) => lastKid = i

\* C10 as amended: a draw u equal to the boundary CDF(i), i < 2, is not below
\* it and samples more than i offspring: i + 1 when p(i+1) > 0, and 2 otherwise.
C10_TieHigher ==
    \A i \in 0..1 :
        (lastU >= 0 /\ i < Len(probs) /\ lastU = SumTo(probs, i + 1)) =>
            /\ lastKid > i
            /\ lastKid = IF i + 2 <= Len(probs) /\ probs[i + 2] > 0
                           THEN i + 1 ELSE 2

\* C10 witness: a draw equal to CDF(0) sampled one offspring.
C10_Witness ==
    /\ lastU >= 0 /\ lastU = SumTo(probs, 1) /\ lastU > 0
    /\ Len(probs) >= 2 /\ probs[2] > 0 /\ lastKid = 1

=============================================================================
